---- MODULE Spec2Model ----
(***************************************************************************)
(* Model of pkg/deej/http.go: the HTTP bridge HttpIO of deej.              *)
(*                                                                         *)
(* Tasks: the caller of Start/Stop/SubscribeToSliderMoveEvents, one gin    *)
(* listener goroutine and one controller loop goroutine per Start(), one   *)
(* handler goroutine per POST /serial request, the config-reload reader    *)
(* goroutine with its delayed reset goroutines, and the subscribers that   *)
(* receive from their channels.                                            *)
(*                                                                         *)
(* SerialIO.handleLine (pkg/deej/serial.go) is called by http.go but is    *)
(* not part of the sources at hand; it is modelled from spec.md sections   *)
(* 4.2 (SliderStateTracker.Diff) and 4.3 (EventDispatcher.Publish).        *)
(***************************************************************************)
EXTENDS Integers, Sequences, FiniteSets, TLC

\* ------------------------------------------------------------------ bounds
MaxLineLen == 3
MaxShortLen == 1
MaxRequests == 2
MaxSubscribers == 2
MaxStarts == 2
MaxReloads == 2
MaxStops == 1

\* ------------------------------------------------------------- line format
\* Characters a request body is made of: two digits, the field separator and
\* a character that is neither.
Digits == {"1", "2"}
Separator == "|"
Chars == Digits \cup {Separator, "x"}
\* the terminator HttpIO.handleLine appends to the command (one token)
CRLF == "\r\n"

RECURSIVE SeqsUpTo(_)
SeqsUpTo(n) ==
  IF n = 0 THEN {<<>>}
  ELSE LET shorter == SeqsUpTo(n - 1)
       IN shorter \cup {Append(s, c) : s \in {t \in shorter : Len(t) = n - 1}, c \in Chars}

Bodies == SeqsUpTo(MaxLineLen)
ShortBodies == SeqsUpTo(MaxShortLen)

Prefixes(s) == {SubSeq(s, 1, n) : n \in 0..Len(s)}

DigitValue(c) == IF c = "1" THEN 1 ELSE 2

\* decimal value of a sequence of digits
RECURSIVE ToNumber(_)
ToNumber(f) ==
  IF f = <<>> THEN 0
  ELSE 10 * ToNumber(SubSeq(f, 1, Len(f) - 1)) + DigitValue(f[Len(f)])

\* the fields of a line: the maximal runs between separators
RECURSIVE SplitFields(_)
SplitFields(s) ==
  IF \A i \in 1..Len(s) : s[i] # Separator THEN <<s>>
  ELSE LET p == CHOOSE i \in 1..Len(s) :
                  s[i] = Separator /\ \A j \in 1..(i - 1) : s[j] # Separator
       IN <<SubSeq(s, 1, p - 1)>> \o SplitFields(SubSeq(s, p + 1, Len(s)))

IsNumericField(f) == f # <<>> /\ \A i \in 1..Len(f) : f[i] \in Digits

\* A terminated line parses when it ends with the terminator and every field
\* before it is numeric (an empty line has one empty field and fails).
Terminated(line) == Len(line) >= 1 /\ line[Len(line)] = CRLF
StripTerminator(line) == SubSeq(line, 1, Len(line) - 1)
WellFormed(line) ==
  /\ Terminated(line)
  /\ \A i \in 1..Len(SplitFields(StripTerminator(line))) :
        IsNumericField(SplitFields(StripTerminator(line))[i])
ParseLine(line) ==
  LET fields == SplitFields(StripTerminator(line))
  IN [i \in 1..Len(fields) |-> ToNumber(fields[i])]

\* ------------------------------------------------- slider tracker (spec 4.2)
Tolerance == 1

Abs(x) == IF x < 0 THEN -x ELSE x

SignificantlyDifferent(old, new) == Abs(new - old) > Tolerance

RECURSIVE ChangedFrom(_, _, _)
\* move events (slider index from 0, ascending) of the sliders of new that
\* moved by more than the tolerance, scanning from index i (1-based)
ChangedFrom(i, old, new) ==
  IF i > Len(new) THEN <<>>
  ELSE (IF SignificantlyDifferent(old[i], new[i])
        THEN <<[SliderID |-> i - 1, PercentValue |-> new[i]]>>
        ELSE <<>>) \o ChangedFrom(i + 1, old, new)

AllSliders(new) == [i \in 1..Len(new) |-> [SliderID |-> i - 1, PercentValue |-> new[i]]]

\* SerialIO.handleLine on the tracker sio = [lastKnownNumSliders, values]:
\* the tracker afterwards and the move events to publish.
SerialIOHandleLine(sio, line) ==
  IF ~WellFormed(line)
  THEN [ok |-> FALSE, sio |-> sio, events |-> <<>>]
  ELSE LET new == ParseLine(line)
       IN IF Len(new) # sio.lastKnownNumSliders
          THEN [ok |-> TRUE,
                sio |-> [lastKnownNumSliders |-> Len(new),
                         currentSliderPercentValues |-> new],
                events |-> AllSliders(new)]
          ELSE [ok |-> TRUE,
                sio |-> [sio EXCEPT !.currentSliderPercentValues = new],
                events |-> ChangedFrom(1, sio.currentSliderPercentValues, new)]

\* ------------------------------------------------------------------- state
VARIABLES
  connected,                  \* hio.connected
  conn,                       \* hio.conn: "nil" or a handle
  lastKnownNumSliders,        \* hio.lastKnownNumSliders
  currentSliderPercentValues, \* hio.currentSliderPercentValues
  sliderMoveConsumers,        \* hio.sliderMoveConsumers: channels in registration order
  subscribing,                \* callers of SubscribeToSliderMoveEvents: where they are, the slice they read
  starts,                     \* Start() calls so far; call k owns line channel k, listener k, loop k
  listener,                   \* listener goroutine k: "none", "starting", "serving", "failed"
  pending,                    \* pending[k][ch]: events loop k's publish has still to send on ch
  requests,                   \* POST /serial requests, in arrival order
  stopSenders,                \* Stop() callers blocked sending on stopChannel
  stopCalls,                  \* Stop() calls made by the owner of the bridge
  closeCalls,                 \* times close() was entered
  crashed,                    \* a goroutine panicked
  resetTasks,                 \* delayed reset goroutines: "none", "sleeping", "done"
  timers,                     \* timers[i]: what is left of the delay of reset goroutine i
  received,                   \* received[ch]: events the subscriber of ch has received
  log                         \* lines handed to handleLine, in order, with what they emitted

vars == <<connected, conn, lastKnownNumSliders, currentSliderPercentValues,
          sliderMoveConsumers, subscribing, starts, listener, pending, requests,
          stopSenders, stopCalls, closeCalls, crashed, resetTasks, timers, received, log>>

hioVars == <<connected, conn, lastKnownNumSliders, currentSliderPercentValues>>

Channels == 1..MaxSubscribers
Loops == 1..MaxStarts
NoEvents == [ch \in Channels |-> <<>>]

\* NewHttpIO: connected false, no handle, no consumers; the slider fields
\* keep their zero values.
Init ==
  /\ connected = FALSE
  /\ conn = "nil"
  /\ lastKnownNumSliders = 0
  /\ currentSliderPercentValues = <<>>
  /\ sliderMoveConsumers = <<>>
  /\ subscribing = [t \in Channels |-> [pc |-> "idle", seen |-> <<>>]]
  /\ starts = 0
  /\ listener = [k \in Loops |-> "none"]
  /\ pending = [k \in Loops |-> NoEvents]
  /\ requests = <<>>
  /\ stopSenders = {}
  /\ stopCalls = 0
  /\ closeCalls = 0
  /\ crashed = FALSE
  /\ resetTasks = [i \in 1..MaxReloads |-> "none"]
  /\ timers = [i \in 1..MaxReloads |-> 0]
  /\ received = [ch \in Channels |-> <<>>]
  /\ log = <<>>

\* Start(): a new line channel, the listener goroutine and the controller
\* loop goroutine; returns at once. No field of hio is assigned.
Start ==
  /\ ~crashed
  /\ starts < MaxStarts
  /\ starts' = starts + 1
  /\ listener' = [listener EXCEPT ![starts + 1] = "starting"]
  /\ UNCHANGED <<hioVars, sliderMoveConsumers, subscribing, pending, requests, stopSenders,
                 stopCalls, closeCalls, crashed, resetTasks, timers, received, log>>

\* The body of Stop() for a caller: blocks on the send when connected, else
\* only logs. Gives the senders blocked on stopChannel afterwards.
StopSend(caller) ==
  IF connected THEN stopSenders \cup {caller} ELSE stopSenders

\* Stop() called by the owner of the bridge
Stop ==
  /\ ~crashed
  /\ stopCalls < MaxStops
  /\ [caller |-> "owner", n |-> stopCalls + 1] \notin stopSenders
  /\ stopCalls' = stopCalls + 1
  /\ stopSenders' = StopSend([caller |-> "owner", n |-> stopCalls + 1])
  /\ UNCHANGED <<hioVars, sliderMoveConsumers, subscribing, starts, listener, pending, requests,
                 closeCalls, crashed, resetTasks, timers, received, log>>

\* router.Run binds localhost:6332 and serves
ListenerServe(k) ==
  /\ ~crashed
  /\ listener[k] = "starting"
  /\ \A j \in Loops : listener[j] # "serving"
  /\ listener' = [listener EXCEPT ![k] = "serving"]
  /\ UNCHANGED <<hioVars, sliderMoveConsumers, subscribing, starts, pending, requests, stopSenders,
                 stopCalls, closeCalls, crashed, resetTasks, timers, received, log>>

\* router.Run returns an error: the listener goroutine calls hio.Stop()
ListenerFail(k) ==
  /\ ~crashed
  /\ listener[k] \in {"starting", "serving"}
  /\ listener' = [listener EXCEPT ![k] = "failed"]
  /\ stopSenders' = StopSend([caller |-> "listener", n |-> k])
  /\ UNCHANGED <<hioVars, sliderMoveConsumers, subscribing, starts, pending, requests,
                 stopCalls, closeCalls, crashed, resetTasks, timers, received, log>>

\* Caller t of SubscribeToSliderMoveEvents makes channel t. Callers are
\* numbered in the order in which they enter.
NextCaller(t) ==
  /\ subscribing[t].pc = "idle"
  /\ \A j \in 1..(t - 1) : subscribing[j].pc # "idle"

\* a subscription that replays the events of the last line to the new channel
SubscribeWithReplay ==
  /\ ~crashed
  /\ Len(sliderMoveConsumers) < MaxSubscribers
  /\ \A j \in Channels : subscribing[j].pc # "appending"
  /\ \E t \in Channels :
       /\ NextCaller(t)
       /\ sliderMoveConsumers' = Append(sliderMoveConsumers, t)
       /\ subscribing' = [subscribing EXCEPT ![t] = [pc |-> "done",
                                                     seen |-> sliderMoveConsumers]]
       /\ pending' = IF log = <<>> THEN pending
                     ELSE [pending EXCEPT ![log[Len(log)].loop][t] =
                                            log[Len(log)].events]
  /\ UNCHANGED <<hioVars, starts, listener, requests, stopSenders,
                 stopCalls, closeCalls, crashed, resetTasks, timers, received, log>>

\* SubscribeToSliderMoveEvents by a caller that no other caller overlaps: a
\* new unbuffered channel, appended
SubscribeToSliderMoveEvents ==
  /\ ~crashed
  /\ Len(sliderMoveConsumers) < MaxSubscribers
  /\ \A j \in Channels : subscribing[j].pc # "appending"
  /\ \E t \in Channels :
       /\ NextCaller(t)
       /\ sliderMoveConsumers' = Append(sliderMoveConsumers, t)
       /\ subscribing' = [subscribing EXCEPT ![t] = [pc |-> "done",
                                                     seen |-> sliderMoveConsumers]]
  /\ UNCHANGED <<hioVars, starts, listener, pending, requests, stopSenders,
                 stopCalls, closeCalls, crashed, resetTasks, timers, received, log>>

\* SubscribeToSliderMoveEvents when callers overlap, first half: the channel
\* is made and append reads hio.sliderMoveConsumers (no lock is taken)
SubscribeBegin(t) ==
  /\ ~crashed
  /\ NextCaller(t)
  /\ subscribing' = [subscribing EXCEPT ![t] = [pc |-> "appending",
                                                seen |-> sliderMoveConsumers]]
  /\ UNCHANGED <<hioVars, sliderMoveConsumers, starts, listener, pending, requests,
                 stopSenders, stopCalls, closeCalls, crashed, resetTasks, timers,
                 received, log>>

\* second half: the slice that was read, with the channel appended, is
\* assigned to hio.sliderMoveConsumers, and the channel is returned
SubscribeEnd(t) ==
  /\ ~crashed
  /\ subscribing[t].pc = "appending"
  /\ sliderMoveConsumers' = Append(subscribing[t].seen, t)
  /\ subscribing' = [subscribing EXCEPT ![t].pc = "done"]
  /\ UNCHANGED <<hioVars, starts, listener, pending, requests, stopSenders,
                 stopCalls, closeCalls, crashed, resetTasks, timers, received, log>>

\* the channels that SubscribeToSliderMoveEvents has returned to its callers
Returned == {t \in Channels : subscribing[t].pc = "done"}

\* ------------------------------------------------------------ POST /serial
Range(f) == {f[i] : i \in DOMAIN f}

\* what c.GetRawData can return: the whole body, or an error together with
\* the bytes read before it
RawData(body, readable) ==
  IF readable THEN {[data |-> body, err |-> FALSE]}
  ELSE {[data |-> d, err |-> TRUE] : d \in Prefixes(body)}

BadRequest == [status |-> 400, json |-> "invalid data"]
Created(command) == [status |-> 201, json |-> command]

\* handleSerialCommand acknowledging the command before it sends it
HandlerReadAckFirst(raw) ==
  [response |-> IF raw.err THEN <<BadRequest>> ELSE <<Created(raw.data)>>,
   command |-> raw.data]

\* handleSerialCommand up to its send on the line channel: what has been
\* written to the response by then, and the command it is about to send
HandlerRead(raw) ==
  [response |-> IF raw.err THEN <<BadRequest>> ELSE <<>>,
   command |-> raw.data]

\* a request arrives at listener k; its handler runs until it blocks on
\* lineChannel <- command
PostSerial(k, body, readable) ==
  /\ ~crashed
  /\ listener[k] = "serving"
  /\ Len(requests) < MaxRequests
  /\ \E raw \in RawData(body, readable) :
       requests' = Append(requests,
                          [srv |-> k, body |-> body, readable |-> readable,
                           pc |-> "send",
                           command |-> HandlerRead(raw).command,
                           response |-> HandlerRead(raw).response])
  /\ UNCHANGED <<hioVars, sliderMoveConsumers, subscribing, starts, listener, pending, stopSenders,
                 stopCalls, closeCalls, crashed, resetTasks, timers, received, log>>

\* handleSerialCommand after its send was taken: the 201 acknowledgement
HandlerRespond(r) ==
  /\ ~crashed
  /\ r \in DOMAIN requests
  /\ requests[r].pc = "sent"
  /\ requests' = [requests EXCEPT ![r].pc = "done",
                                  ![r].response = Append(@, Created(requests[r].command))]
  /\ UNCHANGED <<hioVars, sliderMoveConsumers, subscribing, starts, listener, pending, stopSenders,
                 stopCalls, closeCalls, crashed, resetTasks, timers, received, log>>

\* ---------------------------------------------------------- controller loop
\* the SerialIO that HttpIO.handleLine builds: the slider fields are not
\* among the fields it copies, so they have their zero values
FreshSerialIO == [lastKnownNumSliders |-> 0, currentSliderPercentValues |-> <<>>]

\* HttpIO.handleLine without the terminator appended to the command
HttpIOHandleLineNoTerminator(count, values, line) ==
  LET res == SerialIOHandleLine(FreshSerialIO, line)
  IN [lastKnownNumSliders |-> count,
      currentSliderPercentValues |-> values,
      ok |-> res.ok,
      events |-> res.events]

\* HttpIO.handleLine recording the number of fields before the line is checked
HttpIOHandleLineCountsFirst(count, values, line) ==
  LET res == SerialIOHandleLine(FreshSerialIO, Append(line, CRLF))
  IN [lastKnownNumSliders |-> Len(SplitFields(line)),
      currentSliderPercentValues |-> values,
      ok |-> res.ok,
      events |-> res.events]

\* HttpIO.handleLine: the slider fields of hio afterwards and the move events
\* published to the consumers
HttpIOHandleLine(count, values, line) ==
  LET res == SerialIOHandleLine(FreshSerialIO, Append(line, CRLF))
  IN [lastKnownNumSliders |-> count,
      currentSliderPercentValues |-> values,
      ok |-> res.ok,
      events |-> res.events]

\* EventDispatcher.Publish (spec 4.3): every registered channel is sent every
\* event, in order; the sends to different channels do not wait for each other
Publish(consumers, events) ==
  [ch \in Channels |-> IF ch \in Range(consumers) THEN events ELSE <<>>]

\* reload notifications taken so far, and delayed resets that have fired
ReloadsSeen == Cardinality({i \in DOMAIN resetTasks : resetTasks[i] # "none"})
ResetsDone == Cardinality({i \in DOMAIN resetTasks : resetTasks[i] = "done"})

\* a loop that hands each line to a goroutine of its own and selects again
AtSelectWithoutWaiting(k) == k \in 1..starts

\* the loop is at its select when the handleLine it called has returned
AtSelect(k) == k \in 1..starts /\ pending[k] = NoEvents

\* the cases of the select of loop k that can proceed
SelectReady(k) ==
  {[case |-> "stop", sender |-> s, req |-> 0] : s \in stopSenders}
  \cup {[case |-> "line", sender |-> <<>>, req |-> r] :
          r \in {q \in DOMAIN requests : requests[q].srv = k /\ requests[q].pc = "send"}}

\* hio.close: Close() on the handle, then conn = nil and connected = false;
\* with a nil handle the call panics
Close ==
  /\ closeCalls' = closeCalls + 1
  /\ IF conn = "nil"
     THEN crashed' = TRUE /\ UNCHANGED <<conn, connected>>
     ELSE conn' = "nil" /\ connected' = FALSE /\ UNCHANGED crashed

\* one iteration of the loop of Start k up to the point where it blocks or
\* comes back to the select
ControllerLoop(k) ==
  /\ ~crashed
  /\ AtSelect(k)
  /\ \E c \in SelectReady(k) :
       IF c.case = "stop"
       THEN /\ stopSenders' = stopSenders \ {c.sender}
            /\ Close
            /\ UNCHANGED <<lastKnownNumSliders, currentSliderPercentValues, pending,
                           requests, log>>
       ELSE LET line == requests[c.req].command
                res == HttpIOHandleLine(lastKnownNumSliders,
                                        currentSliderPercentValues, line)
            IN /\ requests' = [requests EXCEPT ![c.req].pc = "sent"]
               /\ lastKnownNumSliders' = res.lastKnownNumSliders
               /\ currentSliderPercentValues' = res.currentSliderPercentValues
               /\ pending' = [pending EXCEPT ![k] = Publish(sliderMoveConsumers, res.events)]
               /\ log' = Append(log, [loop |-> k, req |-> c.req, line |-> line,
                                      events |-> res.events,
                                      consumers |-> sliderMoveConsumers,
                                      returned |-> Returned,
                                      resets |-> ResetsDone])
               /\ UNCHANGED <<connected, conn, stopSenders, closeCalls, crashed>>
  /\ UNCHANGED <<sliderMoveConsumers, subscribing, starts, listener, stopCalls, resetTasks, timers, received>>

\* the controller loops that run: the for of a loop has no exit, so the loop
\* of every Start runs until the process ends
ActiveLoops == IF crashed THEN {} ELSE 1..starts

\* a publish that sends to the channels one after the other, in registration
\* order
SendReadySequential(k, ch) ==
  pending[k][ch] # <<>> /\ \A c \in 1..(ch - 1) : pending[k][c] = <<>>

\* loop k's publish has a send waiting on channel ch (spec 4.3: a channel's
\* sends wait for its own reader only)
SendReady(k, ch) == pending[k][ch] # <<>>

\* the subscriber of channel ch receives the next event sent to it
Receive(ch) ==
  /\ ~crashed
  /\ \E k \in Loops :
       /\ SendReady(k, ch)
       /\ received' = [received EXCEPT ![ch] = Append(@, Head(pending[k][ch]))]
       /\ pending' = [pending EXCEPT ![k][ch] = Tail(@)]
  /\ UNCHANGED <<hioVars, sliderMoveConsumers, subscribing, starts, listener, requests, stopSenders,
                 stopCalls, closeCalls, crashed, resetTasks, timers, log>>

\* ------------------------------------------------------------ config reload
\* const stopDelay = 50 * time.Millisecond
stopDelay == 50
\* the step by which time advances
TickMs == stopDelay \div 2

\* a reload notification is taken by the reader goroutine, which starts the
\* delayed reset goroutine of this notification and goes on to the next
\* notification; the goroutine waits on time.After(stopDelay)
ConfigReload(i) ==
  /\ ~crashed
  /\ resetTasks[i] = "none"
  /\ \A j \in 1..(i - 1) : resetTasks[j] # "none"
  /\ resetTasks' = [resetTasks EXCEPT ![i] = "sleeping"]
  /\ timers' = [timers EXCEPT ![i] = stopDelay]
  /\ UNCHANGED <<hioVars, sliderMoveConsumers, subscribing, starts, listener, pending,
                 requests, stopSenders, stopCalls, closeCalls, crashed, received, log>>

\* time passes for every running timer
Tick ==
  /\ ~crashed
  /\ \E i \in DOMAIN timers : timers[i] > 0
  /\ timers' = [i \in DOMAIN timers |->
                  IF timers[i] > TickMs THEN timers[i] - TickMs ELSE 0]
  /\ UNCHANGED <<hioVars, sliderMoveConsumers, subscribing, starts, listener, pending,
                 requests, stopSenders, stopCalls, closeCalls, crashed, resetTasks,
                 received, log>>

\* a reset goroutine that does not wait for its timer
DelayElapsedAtOnce(i) == timers[i] >= 0

\* the timer of goroutine i has fired
DelayElapsed(i) == timers[i] = 0

\* a reset that marks the count with an impossible value instead of zero
DelayedResetImpossibleCount(i) ==
  /\ ~crashed
  /\ resetTasks[i] = "sleeping"
  /\ DelayElapsed(i)
  /\ resetTasks' = [resetTasks EXCEPT ![i] = "done"]
  /\ lastKnownNumSliders' = -1
  /\ UNCHANGED <<connected, conn, currentSliderPercentValues, sliderMoveConsumers,
                 subscribing, starts, listener, pending, requests, stopSenders, stopCalls,
                 closeCalls, crashed, timers, received, log>>

\* stopDelay has elapsed: the goroutine clears the slider count and ends
DelayedReset(i) ==
  /\ ~crashed
  /\ resetTasks[i] = "sleeping"
  /\ DelayElapsed(i)
  /\ resetTasks' = [resetTasks EXCEPT ![i] = "done"]
  /\ lastKnownNumSliders' = 0
  /\ UNCHANGED <<connected, conn, currentSliderPercentValues, sliderMoveConsumers,
                 subscribing, starts, listener, pending, requests, stopSenders, stopCalls,
                 closeCalls, crashed, timers, received, log>>

\* ----------------------------------------------------------- specifications
\* Every step the bridge and its environment can take.
Next ==
  \/ Start
  \/ Stop
  \/ SubscribeToSliderMoveEvents
  \/ \E k \in Loops : ListenerServe(k)
  \/ \E k \in Loops : ListenerFail(k)
  \/ \E k \in Loops, body \in Bodies, readable \in BOOLEAN : PostSerial(k, body, readable)
  \/ \E r \in 1..MaxRequests : HandlerRespond(r)
  \/ \E k \in Loops : ControllerLoop(k)
  \/ \E ch \in Channels : Receive(ch)
  \/ \E t \in Channels : SubscribeBegin(t)
  \/ \E t \in Channels : SubscribeEnd(t)
  \/ \E i \in 1..MaxReloads : ConfigReload(i)
  \/ Tick
  \/ \E i \in 1..MaxReloads : DelayedReset(i)

Spec == Init /\ [][Next]_vars

\* The specifications below are Spec with the environment restricted,
\* so that each part of the bridge is explored with inputs rich enough for it.

NoRequestInFlight == \A r \in DOMAIN requests : requests[r].pc = "done"

\* Lines and reloads: subscribers that register one after the other before
\* the one Start, a client that posts readable bodies of up to MaxLineLen
\* characters and awaits each acknowledgement, and at most one reload.
NextLines ==
  \/ starts = 0 /\ Start
  \/ starts = 0 /\ SubscribeToSliderMoveEvents
  \/ \E k \in Loops : ListenerServe(k)
  \/ NoRequestInFlight /\ \E k \in Loops, body \in Bodies : PostSerial(k, body, TRUE)
  \/ \E r \in 1..MaxRequests : HandlerRespond(r)
  \/ \E k \in Loops : ControllerLoop(k)
  \/ \E ch \in Channels : Receive(ch)
  \/ ReloadsSeen = 0 /\ \E i \in 1..MaxReloads : ConfigReload(i)
  \/ Tick
  \/ \E i \in 1..MaxReloads : DelayedReset(i)

SpecLines == Init /\ [][NextLines]_vars

\* Requests and subscribers: one Start, concurrent requests with readable and
\* unreadable bodies of up to MaxShortLen characters.
NextHttp ==
  \/ starts = 0 /\ Start
  \/ SubscribeToSliderMoveEvents
  \/ \E k \in Loops : ListenerServe(k)
  \/ \E k \in Loops, body \in ShortBodies, readable \in BOOLEAN :
       PostSerial(k, body, readable)
  \/ \E r \in 1..MaxRequests : HandlerRespond(r)
  \/ \E k \in Loops : ControllerLoop(k)
  \/ \E ch \in Channels : Receive(ch)

SpecHttp == Init /\ [][NextHttp]_vars

\* SpecHttp with a subscriber of channel 2 that keeps receiving; nothing is
\* assumed of the subscriber of channel 1.
SpecFanout == Init /\ [][NextHttp]_vars /\ WF_vars(Receive(2))

\* SpecHttp with an owner that may call Stop() at any moment
NextBlocked ==
  \/ NextHttp
  \/ Stop

SpecBlocked == Init /\ [][NextBlocked]_vars

\* Overlapping subscriptions: one Start, callers of
\* SubscribeToSliderMoveEvents that run concurrently with each other and with
\* the loop, and requests with readable bodies of up to MaxShortLen characters.
NextSubscribe ==
  \/ starts = 0 /\ Start
  \/ \E t \in Channels : SubscribeBegin(t)
  \/ \E t \in Channels : SubscribeEnd(t)
  \/ \E k \in Loops : ListenerServe(k)
  \/ \E k \in Loops, body \in ShortBodies : PostSerial(k, body, TRUE)
  \/ \E r \in 1..MaxRequests : HandlerRespond(r)
  \/ \E k \in Loops : ControllerLoop(k)
  \/ \E ch \in Channels : Receive(ch)

SpecSubscribe == Init /\ [][NextSubscribe]_vars

\* Reloads: one Start, any number of reload notifications up to MaxReloads
\* with time passing, and requests with readable bodies of up to MaxShortLen
\* characters.
NextReload ==
  \/ starts = 0 /\ Start
  \/ \E k \in Loops : ListenerServe(k)
  \/ \E k \in Loops, body \in ShortBodies : PostSerial(k, body, TRUE)
  \/ \E r \in 1..MaxRequests : HandlerRespond(r)
  \/ \E k \in Loops : ControllerLoop(k)
  \/ \E i \in 1..MaxReloads : ConfigReload(i)
  \/ Tick
  \/ \E i \in 1..MaxReloads : DelayedReset(i)

SpecReload == Init /\ [][NextReload]_vars

\* Lifecycle: Start, Stop and listener failures in any order, with requests
\* of up to MaxShortLen characters and no subscriber.
NextLifecycle ==
  \/ Start
  \/ Stop
  \/ \E k \in Loops : ListenerServe(k)
  \/ \E k \in Loops : ListenerFail(k)
  \/ \E k \in Loops, body \in ShortBodies : PostSerial(k, body, TRUE)
  \/ \E r \in 1..MaxRequests : HandlerRespond(r)
  \/ \E k \in Loops : ControllerLoop(k)

SpecLifecycle == Init /\ [][NextLifecycle]_vars

\* ------------------------------------------------------------------ claims
\* what the loop handed to the parser for log entry i, and its readings
LineOf(i) == Append(log[i].line, CRLF)
ValuesOf(i) == ParseLine(LineOf(i))
\* no delayed reset fired between entries i - 1 and i
NoResetBefore(i) == log[i].resets = log[i - 1].resets
\* the events of loop 1's lines that were or are being sent on channel ch
Stream(ch) == received[ch] \o pending[1][ch]

\* C1: of two lines with the same number of fields processed one after the
\* other, no reload notification having arrived so far, the second emits no
\* move event for a
\* slider whose value is the one of the first line (so a line identical to
\* the previous one emits nothing).
C1_UnchangedSliderEmitsNothing ==
  \A i \in 2..Len(log) :
    (/\ WellFormed(LineOf(i - 1)) /\ WellFormed(LineOf(i))
     /\ Len(ValuesOf(i)) = Len(ValuesOf(i - 1))
     /\ ReloadsSeen = 0)
    => \A j \in 1..Len(log[i].events) :
         log[i].events[j].PercentValue
           # ValuesOf(i - 1)[log[i].events[j].SliderID + 1]

\* C2: the first line processed after Start, when it has N numeric fields,
\* emits exactly N move events, (0, v0), (1, v1), ... in ascending slider
\* order with the fields' values, and each registered subscriber is sent
\* exactly these, in this order, before anything else.
C2_FirstLineEmitsAll ==
  (Len(log) >= 1 /\ WellFormed(LineOf(1))) =>
    LET v == ValuesOf(1)
        expected == [i \in 1..Len(v) |-> [SliderID |-> i - 1, PercentValue |-> v[i]]]
    IN /\ log[1].events = expected
       /\ \A ch \in Range(log[1].consumers) :
            /\ Len(Stream(ch)) >= Len(v)
            /\ SubSeq(Stream(ch), 1, Len(v)) = expected
            /\ Len(log) = 1 => Stream(ch) = expected

\* C2 witness: "1|2" was the first line and both subscribers have received
\* (0,1) then (1,2)
C2_Witness ==
  /\ Len(log) = 1
  /\ log[1].line = <<"1", "|", "2">>
  /\ log[1].consumers = <<1, 2>>
  /\ \A ch \in {1, 2} :
       received[ch] = <<[SliderID |-> 0, PercentValue |-> 1],
                        [SliderID |-> 1, PercentValue |-> 2]>>

\* C3: the first line processed after a delayed reset has fired emits one
\* event per field whatever its content, and the resend happens once: a
\* line that follows a line processed after the reset, has that line's
\* readings and no further reset in between, emits nothing.
C3_ResendOnceAfterReset ==
  \A i \in 1..Len(log) :
    /\ (/\ WellFormed(LineOf(i))
        /\ log[i].resets > (IF i = 1 THEN 0 ELSE log[i - 1].resets))
       => log[i].events = AllSliders(ValuesOf(i))
    /\ (/\ i >= 2
        /\ log[i - 1].resets >= 1
        /\ WellFormed(LineOf(i - 1)) /\ WellFormed(LineOf(i))
        /\ ValuesOf(i) = ValuesOf(i - 1)
        /\ NoResetBefore(i))
       => log[i].events = <<>>

\* C4: a line that is empty or has a non-numeric field emits no move event,
\* leaves the slider count and the stored percentages as they were, and the
\* loop is back at its select, ready for the next line.
C4_MalformedLineDropped ==
  [][(/\ Len(log') = Len(log) + 1
      /\ ~WellFormed(Append(log'[Len(log')].line, CRLF)))
     => /\ log'[Len(log')].events = <<>>
        /\ pending' = pending
        /\ received' = received
        /\ lastKnownNumSliders' = lastKnownNumSliders
        /\ currentSliderPercentValues' = currentSliderPercentValues
        /\ pending'[log'[Len(log')].loop] = NoEvents
        /\ ~crashed']_vars

\* C4 witness: the line "1|x" was dropped and the loop then processed "1"
C4_Witness ==
  /\ Len(log) = 2
  /\ log[1].line = <<"1", "|", "x">>
  /\ log[1].events = <<>>
  /\ log[2].line = <<"1">>
  /\ log[2].events = <<[SliderID |-> 0, PercentValue |-> 1]>>
  /\ received[1] = log[2].events

\* C5: with two subscribers, the events of a processed line that wait for
\* the subscriber of channel 2 are all received by it eventually, whether or
\* not the subscriber of channel 1 ever receives.
C5_OtherSubscriberServed ==
  \A k \in Loops : (pending[k][2] # <<>>) ~> (pending[k][2] = <<>>)

\* C5 witness: the subscriber of channel 1 has received nothing of a line
\* published to both, and the subscriber of channel 2 has received all of it
C5_Witness ==
  /\ Len(log) = 1
  /\ log[1].consumers = <<1, 2>>
  /\ log[1].events # <<>>
  /\ received[1] = <<>> /\ pending[1][1] = log[1].events
  /\ received[2] = log[1].events /\ pending[1][2] = <<>>

\* the log entries of request r
HandedOver(r) == {i \in DOMAIN log : log[i].req = r}

\* C6: a request whose body cannot be read is answered 400 "invalid data"
\* and nothing else, and no line of it reaches the controller loop.
C6_UnreadableBodyOnly400 ==
  \A r \in DOMAIN requests :
    ~requests[r].readable =>
      /\ requests[r].response = <<BadRequest>>
      /\ HandedOver(r) = {}

\* C7: of a request with a readable body, the command is the whole body; the
\* loop of its listener is handed this line once, and not before the handler
\* sent it; the response is empty until the loop has taken the line and is
\* then one 201 echoing the command.
C7_ReadableBodyOneLineOneAck ==
  \A r \in DOMAIN requests :
    requests[r].readable =>
      /\ requests[r].command = requests[r].body
      /\ \A i \in HandedOver(r) :
           log[i].line = requests[r].body /\ log[i].loop = requests[r].srv
      /\ requests[r].pc = "send" =>
           HandedOver(r) = {} /\ requests[r].response = <<>>
      /\ requests[r].pc = "sent" =>
           Cardinality(HandedOver(r)) = 1 /\ requests[r].response = <<>>
      /\ requests[r].pc = "done" =>
           /\ Cardinality(HandedOver(r)) = 1
           /\ requests[r].response = <<Created(requests[r].body)>>

\* C7 witness: the body "1" was read, handed to the loop and acknowledged
C7_Witness ==
  \E r \in DOMAIN requests :
    /\ requests[r].readable
    /\ requests[r].body = <<"1">>
    /\ requests[r].pc = "done"
    /\ requests[r].response = <<[status |-> 201, json |-> <<"1">>]>>
    /\ \E i \in DOMAIN log : log[i].req = r /\ log[i].line = <<"1">>

\* the lifecycle state Connected: Start has returned, a listener serves, and
\* there was no Stop and no transport failure
LifecycleConnected ==
  /\ starts >= 1
  /\ \E k \in 1..starts : listener[k] = "serving"
  /\ \A k \in Loops : listener[k] # "failed"
  /\ stopCalls = 0
  /\ closeCalls = 0

\* C8: a Stop() on a bridge that is Connected sends a stop signal, each
\* signal the loop takes enters close once, and a Stop() on a bridge that is
\* not connected sends nothing and changes nothing of the bridge.
C8_StopTearsDownOnce ==
  [][/\ (stopCalls' = stopCalls + 1) =>
          IF LifecycleConnected
          THEN Cardinality(stopSenders') = Cardinality(stopSenders) + 1
          ELSE stopSenders' = stopSenders /\ UNCHANGED hioVars
     /\ (closeCalls' # closeCalls) =>
          /\ closeCalls' = closeCalls + 1
          /\ Cardinality(stopSenders') = Cardinality(stopSenders) - 1]_vars

\* C9: once Start has returned and its listener serves, with no Stop and no
\* failure yet, the connected flag is true and the bridge holds a handle.
C9_ConnectedAfterStart ==
  LifecycleConnected => connected /\ conn # "nil"

\* C10: once a listener's Run has returned an error, the stop signal is on
\* its way or close has run and left the bridge idle, and nothing panicked.
C10_ListenerFailureTearsDown ==
  (\E k \in Loops : listener[k] = "failed") =>
    /\ ~crashed
    /\ \/ stopSenders # {}
       \/ closeCalls >= 1 /\ ~connected /\ conn = "nil"

\* a call of handleLine has not returned: events of its line are still to
\* be received
InHandleLine(k) == pending[k] # NoEvents

\* C11: with requests served concurrently by the listener of one Start, a
\* line is handed to handleLine only when no call of handleLine is in
\* progress, so the calls do not overlap and every event of a line has been
\* received before the next line begins; each request is handed over at most
\* once, in the order in which the sends were taken.
C11_LinesOneAtATime ==
  [][(Len(log') > Len(log)) =>
       /\ \A k \in Loops : ~InHandleLine(k)
       /\ Len(log') = Len(log) + 1
       /\ SubSeq(log', 1, Len(log)) = log
       /\ \A i \in DOMAIN log : log[i].req # log'[Len(log')].req
       /\ requests[log'[Len(log')].req].pc = "send"
       /\ \A ch \in Channels :
            Len(received[ch]) =
              Cardinality({<<i, j>> \in (DOMAIN log) \X (1..MaxLineLen) :
                             ch \in Range(log[i].consumers) /\ j <= Len(log[i].events)})
     ]_vars

\* C11 witness: the second request is blocked on the line channel while the
\* event of the first line is still being delivered
C11_Witness ==
  /\ Len(requests) = 2
  /\ requests[1].pc = "sent" /\ requests[2].pc = "send"
  /\ Len(log) = 1 /\ log[1].req = 1
  /\ log[1].events # <<>>
  /\ InHandleLine(1)

\* C12: whatever the interleaving of the calls of SubscribeToSliderMoveEvents
\* with each other and with the loop, every channel a call has returned is in
\* the registry, and every line processed after a call returned is published
\* to the channel of that call.
C12_NoRegistrationLost ==
  /\ Returned \subseteq Range(sliderMoveConsumers)
  /\ \A i \in DOMAIN log : log[i].returned \subseteq Range(log[i].consumers)

\* the reset goroutines that have executed hio.lastKnownNumSliders = 0
ResetWriters == {i \in DOMAIN resetTasks : resetTasks[i] = "done"}

RECURSIVE EventsSince(_, _)
EventsSince(ch, n) ==
  IF n = 0 THEN <<>>
  ELSE EventsSince(ch, n - 1)
         \o (IF ch \in log[n].returned THEN log[n].events ELSE <<>>)

\* C14: what a channel has been sent (received or waiting to be) is exactly
\* the events of the lines whose processing began after the channel was
\* registered, in order: nothing of an earlier line is buffered or replayed.
C14_NoReplay ==
  \A ch \in Channels : Stream(ch) = EventsSince(ch, Len(log))

\* C14 witness: channel 2 was registered after the first line, which emitted
\* an event, and has received the event of the second line only
C14_Witness ==
  /\ Len(log) = 2
  /\ log[1].returned = {1} /\ log[1].events # <<>>
  /\ log[2].returned = {1, 2} /\ log[2].events # <<>>
  /\ received[1] = log[1].events \o log[2].events
  /\ received[2] = log[2].events

\* C15: the slider state is empty after construction, and while no reset has
\* fired since the last line, a well-formed last line with N fields leaves the
\* recorded slider count at N and N stored percentages.
C15_CountFollowsLastLine ==
  /\ (log = <<>> /\ ResetWriters = {}) =>
       lastKnownNumSliders = 0 /\ currentSliderPercentValues = <<>>
  /\ (/\ log # <<>>
      /\ WellFormed(LineOf(Len(log)))
      /\ log[Len(log)].resets = ResetsDone) =>
       /\ lastKnownNumSliders = Len(ValuesOf(Len(log)))
       /\ Len(currentSliderPercentValues) = Len(ValuesOf(Len(log)))

\* C16: the goroutine of a notification starts with the whole delay to wait,
\* its timer only runs down, it clears the count once, when the timer has run
\* out, and then ends; a waiting goroutine is never cancelled or merged with
\* another (it can fire as soon as its own timer has run out), and the reader
\* can take the next notification whatever the timers of earlier ones.
C16_IndependentDelayedResets ==
  /\ [](\A i \in DOMAIN resetTasks :
          /\ (resetTasks[i] = "sleeping" /\ timers[i] = 0) => ENABLED DelayedReset(i)
          /\ (/\ resetTasks[i] = "none"
              /\ \A j \in 1..(i - 1) : resetTasks[j] # "none")
             => ENABLED ConfigReload(i))
  /\ [][\A i \in DOMAIN resetTasks :
          /\ (resetTasks[i] = "none" /\ resetTasks'[i] # "none") =>
               resetTasks'[i] = "sleeping" /\ timers'[i] = stopDelay
          /\ (resetTasks[i] = "sleeping" /\ resetTasks'[i] # "sleeping") =>
               /\ resetTasks'[i] = "done"
               /\ timers[i] = 0
               /\ lastKnownNumSliders' = 0
               /\ \A j \in DOMAIN resetTasks \ {i} : resetTasks'[j] = resetTasks[j]
          /\ resetTasks[i] = "sleeping" => timers'[i] <= timers[i]
          /\ resetTasks[i] = "done" => resetTasks'[i] = "done"]_vars

\* C16 witness: the goroutine of the first notification has cleared the
\* count while the goroutine of the second still waits for its own delay
C16_Witness ==
  /\ resetTasks[1] = "done"
  /\ resetTasks[2] = "sleeping"
  /\ timers[2] > 0 /\ timers[2] < stopDelay

\* C17: while an event of the line loop k is processing waits for its
\* subscriber, no step takes another line from loop k's line channel (every
\* handler blocked on its send stays blocked, and no handler answers 201 that
\* had not been taken before), and no step takes a stop signal (no sender
\* blocked on the stop channel is released, close is not run).
C17_LoopBlockedWhilePublishing ==
  [][\A k \in Loops :
       InHandleLine(k) =>
         /\ \A r \in DOMAIN requests :
              (requests[r].srv = k /\ requests[r].pc = "send") =>
                requests'[r] = requests[r]
         /\ stopSenders \subseteq stopSenders'
         /\ closeCalls' = closeCalls]_vars

\* C17 witness: an event of the first line still waits for its subscriber,
\* a later request is blocked on the line channel without an answer, and
\* Stop() has been called
C17_Witness ==
  /\ InHandleLine(1)
  /\ \E r \in DOMAIN requests :
       /\ requests[r].srv = 1 /\ requests[r].pc = "send"
       /\ requests[r].readable /\ requests[r].response = <<>>
       /\ \E q \in DOMAIN requests : requests[q].pc \in {"sent", "done"}
  /\ stopCalls > 0

\* C18: a Start() made after the listener of every earlier Start has failed
\* (each failure calls Stop()) leaves exactly one controller loop running.
C18_OneLoopAfterRestart ==
  [][(/\ starts' = starts + 1
      /\ starts >= 1
      /\ \A k \in 1..starts : listener[k] = "failed")
     => Cardinality(ActiveLoops') = 1]_vars

====
